---- MODULE Spec2Model ----
(***************************************************************************)
(* Model of the SQS worker of go-sqs-poller (package worker):              *)
(*   New, Config.populateDefaultValues, getQueueURL,                       *)
(*   Worker.Start, Worker.run and Worker.handleMessage.                    *)
(* The remote queue, the handler and the cancellation of the context are   *)
(* the environment: their outcomes are chosen nondeterministically.        *)
(***************************************************************************)
EXTENDS Integers, Sequences, FiniteSets, TLC

\* ------------------------------------------------------------------ bounds
\* Number of messages that sit on the remote queue at the beginning.
NumMsgs == 2
\* Saturation bound of the counter of consecutive failed receives.
MaxFail == 2
\* Saturation bound of the counter of receive calls begun after cancellation.
MaxLate == 2

\* ------------------------------------------------------- program constants
DefaultMaxNumberOfMessage == 10
DefaultWaitTimeSecond == 20

\* ------------------------------------------------------------ input sets
\* MaxNumberOfMessage / WaitTimeSecond as supplied by the caller of New
\* (0 is the zero value of an unset int32 field).
BatchInputs == {0, 1}
WaitInputs == {0, 5}
QueueNames == {"my-sqs-queue", "other-queue"}

MsgIds == 1..NumMsgs

\* types.Message: the payload and the receipt handle of message k.
Message(k) == [Body |-> k, ReceiptHandle |-> 100 + k]
NoMessage == [Body |-> 0, ReceiptHandle |-> 0]

\* Outcomes of Handler.HandleMessage: nil, an InvalidEventError, any other error.
HandlerResults == {"ok", "invalid", "error"}

VARIABLES
    Config,      \* *Config shared by the caller and the Worker
    resolveCalls,\* number of GetQueueUrl calls issued so far (saturating at 2)
    cancelled,   \* ctx.Done() is closed
    pc,          \* position of the loop task: New, Start, run
    queue,       \* ids of the messages currently on the remote queue
    messages,    \* resp.Messages of the current iteration
    idx,         \* position of run's range loop
    i,           \* run's range variable (one variable for the whole loop)
    wg,          \* counter of run's sync.WaitGroup
    unit,        \* the goroutines launched by run, in launch order
    lastRecv,    \* outcome of the latest returned ReceiveMessage call
    consecFail,  \* consecutive failed receives (saturating at MaxFail)
    lateRecv,    \* receive calls begun after cancellation (saturating at MaxLate)
    supplied,    \* the Config as the caller passed it to New
    resolved,    \* the GetQueueUrl call New made: its queue name and outcome
    startCancelled, \* ctx.Done() was already closed when Start was called
    recvParams   \* the ReceiveMessageInput of the latest ReceiveMessage call

\* What is fixed by the call of New and of Start.
ctor == <<supplied, resolved, startCancelled>>

vars == <<Config, resolveCalls, cancelled, pc, queue, messages, idx, i, wg,
          unit, lastRecv, consecFail, lateRecv, ctor, recvParams>>

Min(a, b) == IF a < b THEN a ELSE b

\* A goroutine that was launched and has not yet called the handler.
Launched == [pc |-> "start", body |-> 0, res |-> "none", tok |-> 0,
             del |-> "none", url |-> <<>>]
\* A goroutine that has returned and whose frame is gone.
Finished == [pc |-> "done", body |-> 0, res |-> "none", tok |-> 0,
             del |-> "none", url |-> <<>>]

\* Mutant of populateDefaultValues: the second test repeats the first field.
populateDefaultValues_Coupled(config) ==
    [config EXCEPT
        !.MaxNumberOfMessage =
            IF config.MaxNumberOfMessage = 0 THEN DefaultMaxNumberOfMessage
            ELSE config.MaxNumberOfMessage,
        !.WaitTimeSecond =
            IF config.MaxNumberOfMessage = 0 THEN DefaultWaitTimeSecond
            ELSE config.WaitTimeSecond]

\* ------------------------------------------------------------ construction
\* Config.populateDefaultValues
populateDefaultValues(config) ==
    [config EXCEPT
        !.MaxNumberOfMessage =
            IF config.MaxNumberOfMessage = 0 THEN DefaultMaxNumberOfMessage
            ELSE config.MaxNumberOfMessage,
        !.WaitTimeSecond =
            IF config.WaitTimeSecond = 0 THEN DefaultWaitTimeSecond
            ELSE config.WaitTimeSecond]

\* The address the queue service answers for a queue name.
QueueUrlOf(queueName) == <<"https://sqs", queueName>>
\* The zero value of the named result queueURL.
EmptyUrl == <<>>

\* Mutant of getQueueURL: the queue name is returned in place of the
\* address of the response.
getQueueURL_Name(queueName, ok) ==
    IF ok THEN <<queueName>> ELSE EmptyUrl

\* Mutant of getQueueURL: the error of GetQueueUrl is not looked at.
getQueueURL_IgnoreErr(queueName, ok) == QueueUrlOf(queueName)

\* getQueueURL: ok is the outcome of client.GetQueueUrl.
getQueueURL(queueName, ok) ==
    IF ok THEN QueueUrlOf(queueName) ELSE EmptyUrl

\* No ReceiveMessage call has been made yet.
NoParams == [QueueUrl |-> <<>>, MaxNumberOfMessages |-> 0,
             AttributeNames |-> <<>>, WaitTimeSeconds |-> 0]

\* No GetQueueUrl call has been made yet.
NotResolved == [name |-> "", ok |-> FALSE]

Init ==
    /\ Config \in [MaxNumberOfMessage : BatchInputs,
                   QueueName : QueueNames,
                   QueueURL : {EmptyUrl},
                   WaitTimeSecond : WaitInputs]
    /\ supplied = Config
    /\ resolved = NotResolved
    /\ startCancelled = FALSE
    /\ recvParams = NoParams
    /\ resolveCalls = 0
    /\ cancelled = FALSE
    /\ pc = "new"
    /\ queue = MsgIds
    /\ messages = <<>>
    /\ idx = 0
    /\ i = NoMessage
    /\ wg = 0
    /\ unit = <<>>
    /\ lastRecv = "none"
    /\ consecFail = 0
    /\ lateRecv = 0

\* Mutant of New/Start: the loop receives first and checks ctx.Done() at
\* the end of the iteration.
New_PollFirst ==
    /\ pc = "new"
    /\ \E ok \in BOOLEAN :
        /\ Config' = [populateDefaultValues(Config) EXCEPT
                        !.QueueURL = getQueueURL(Config.QueueName, ok)]
        /\ resolved' = [name |-> Config.QueueName, ok |-> ok]
    /\ resolveCalls' = Min(resolveCalls + 1, 2)
    /\ startCancelled' = cancelled
    /\ pc' = "poll"
    /\ UNCHANGED <<supplied, cancelled, queue, messages, idx, i, wg, unit,
                   lastRecv, consecFail, lateRecv, recvParams>>

\* New, followed by the call of Start.
New ==
    /\ pc = "new"
    /\ \E ok \in BOOLEAN :
        /\ Config' = [populateDefaultValues(Config) EXCEPT
                        !.QueueURL = getQueueURL(Config.QueueName, ok)]
        /\ resolved' = [name |-> Config.QueueName, ok |-> ok]
    /\ resolveCalls' = Min(resolveCalls + 1, 2)
    /\ startCancelled' = cancelled
    /\ pc' = "select"
    /\ UNCHANGED <<supplied, cancelled, queue, messages, idx, i, wg, unit,
                   lastRecv, consecFail, lateRecv, recvParams>>

\* ------------------------------------------------------------ cancellation
\* The caller's context is cancelled or its deadline passes.
Cancel ==
    /\ ~cancelled
    /\ cancelled' = TRUE
    /\ UNCHANGED <<ctor, Config, resolveCalls, pc, queue, messages, idx, i, wg, unit,
                   lastRecv, consecFail, lateRecv, recvParams>>

\* Mutant of SelectDone: `break` instead of `return` leaves the select only.
SelectDone_Break ==
    /\ pc = "select"
    /\ cancelled
    /\ UNCHANGED vars

\* ------------------------------------------------------------ Worker.Start
\* select: case <-ctx.Done() is taken when the context is cancelled.
SelectDone ==
    /\ pc = "select"
    /\ cancelled
    /\ pc' = "stopped"
    /\ UNCHANGED <<ctor, Config, resolveCalls, cancelled, queue, messages, idx, i, wg,
                   unit, lastRecv, consecFail, lateRecv, recvParams>>

\* Mutant of SelectDefault: the default branch is taken whether or not
\* ctx.Done() is ready.
SelectDefault_NoCheck ==
    /\ pc = "select"
    /\ pc' = "poll"
    /\ UNCHANGED <<ctor, Config, resolveCalls, cancelled, queue, messages, idx, i, wg,
                   unit, lastRecv, consecFail, lateRecv, recvParams>>

\* select: the default branch, taken when ctx.Done() is not ready; it builds
\* the ReceiveMessageInput.
SelectDefault ==
    /\ pc = "select"
    /\ ~cancelled
    /\ pc' = "poll"
    /\ UNCHANGED <<ctor, Config, resolveCalls, cancelled, queue, messages, idx, i, wg,
                   unit, lastRecv, consecFail, lateRecv, recvParams>>

\* Mutant of ReceiveMessageInput: the two int32 fields are exchanged.
ReceiveMessageInput_Swapped ==
    [QueueUrl |-> Config.QueueURL,
     MaxNumberOfMessages |-> Config.WaitTimeSecond,
     AttributeNames |-> <<"All">>,
     WaitTimeSeconds |-> Config.MaxNumberOfMessage]

\* params := &sqs.ReceiveMessageInput{...}, built from worker.Config.
ReceiveMessageInput ==
    [QueueUrl |-> Config.QueueURL,
     MaxNumberOfMessages |-> Config.MaxNumberOfMessage,
     AttributeNames |-> <<"All">>,
     WaitTimeSeconds |-> Config.WaitTimeSecond]

\* worker.SqsClient.ReceiveMessage(params) is called.
ReceiveCall ==
    /\ pc = "poll"
    /\ pc' = "receiving"
    /\ lateRecv' = IF cancelled THEN Min(lateRecv + 1, MaxLate) ELSE lateRecv
    /\ recvParams' = ReceiveMessageInput
    /\ UNCHANGED <<ctor, Config, resolveCalls, cancelled, queue, messages, idx, i, wg,
                   unit, lastRecv, consecFail>>

\* Mutant of ReceiveErr: `return` instead of `continue`.
ReceiveErr_Return ==
    /\ pc = "receiving"
    /\ pc' = "stopped"
    /\ lastRecv' = "err"
    /\ consecFail' = Min(consecFail + 1, MaxFail)
    /\ UNCHANGED <<ctor, Config, resolveCalls, cancelled, queue, messages, idx, i, wg,
                   unit, lateRecv, recvParams>>

\* Mutant of ReceiveErr: the `continue` is missing and the error path falls
\* through to the dispatch.
ReceiveErr_FallThrough ==
    /\ pc = "receiving"
    /\ pc' = "run"
    /\ lastRecv' = "err"
    /\ consecFail' = Min(consecFail + 1, MaxFail)
    /\ UNCHANGED <<ctor, Config, resolveCalls, cancelled, queue, messages, idx, i, wg,
                   unit, lateRecv, recvParams>>

\* Mutant of ReceiveErr: the error path clears the stored queue address.
ReceiveErr_ClearUrl ==
    /\ pc = "receiving"
    /\ pc' = "select"
    /\ lastRecv' = "err"
    /\ consecFail' = Min(consecFail + 1, MaxFail)
    /\ Config' = [Config EXCEPT !.QueueURL = EmptyUrl]
    /\ UNCHANGED <<ctor, resolveCalls, cancelled, queue, messages, idx, i, wg,
                   unit, lateRecv, recvParams>>

\* ReceiveMessage returns an error: log.Println(err); continue.
ReceiveErr ==
    /\ pc = "receiving"
    /\ pc' = "select"
    /\ lastRecv' = "err"
    /\ consecFail' = Min(consecFail + 1, MaxFail)
    /\ UNCHANGED <<ctor, Config, resolveCalls, cancelled, queue, messages, idx, i, wg,
                   unit, lateRecv, recvParams>>

\* The batches the queue may answer: up to max distinct messages of q, in any order.
Batches(q, max) ==
    LET lens == 0..Min(max, Cardinality(q))
        seqs == UNION {[1..n -> q] : n \in lens}
    IN  {s \in seqs : \A a, b \in DOMAIN s : a # b => s[a] # s[b]}

\* Mutant of ReceiveOk: run is called whatever the length of resp.Messages.
ReceiveOk_AlwaysRun ==
    /\ pc = "receiving"
    /\ Config.QueueURL # EmptyUrl
    /\ \E batch \in Batches(queue, Config.MaxNumberOfMessage) :
        /\ messages' = [k \in DOMAIN batch |-> Message(batch[k])]
        /\ lastRecv' = IF Len(batch) > 0 THEN "batch" ELSE "empty"
        /\ pc' = "run"
    /\ consecFail' = 0
    /\ UNCHANGED <<ctor, Config, resolveCalls, cancelled, queue, idx, i, wg, unit,
                   lateRecv, recvParams>>

\* ReceiveMessage returns resp; run is called when len(resp.Messages) > 0.
\* A queue that could not be resolved (empty QueueURL) answers no receive.
ReceiveOk ==
    /\ pc = "receiving"
    /\ Config.QueueURL # EmptyUrl
    /\ \E batch \in Batches(queue, Config.MaxNumberOfMessage) :
        /\ messages' = [k \in DOMAIN batch |-> Message(batch[k])]
        /\ lastRecv' = IF Len(batch) > 0 THEN "batch" ELSE "empty"
        /\ pc' = IF Len(batch) > 0 THEN "run" ELSE "select"
    /\ consecFail' = 0
    /\ UNCHANGED <<ctor, Config, resolveCalls, cancelled, queue, idx, i, wg, unit,
                   lateRecv, recvParams>>

\* -------------------------------------------------------------- Worker.run
\* numMessages := len(*messages); wg.Add(numMessages)
RunBegin ==
    /\ pc = "run"
    /\ wg' = wg + Len(messages)
    /\ idx' = 1
    /\ unit' = <<>>
    /\ pc' = IF Len(messages) = 0 THEN "wait" ELSE "launch"
    /\ UNCHANGED <<ctor, Config, resolveCalls, cancelled, queue, messages, i,
                   lastRecv, consecFail, lateRecv, recvParams>>

\* One iteration of `for _, i := range *messages { go func(m){...}(&i) }`:
\* the range variable i is assigned the next message and a goroutine holding
\* a pointer to i is launched.
RunLaunch ==
    /\ pc = "launch"
    /\ idx <= Len(messages)
    /\ i' = messages[idx]
    /\ unit' = Append(unit, Launched)
    /\ idx' = idx + 1
    /\ pc' = IF idx = Len(messages) THEN "wait" ELSE "launch"
    /\ UNCHANGED <<ctor, Config, resolveCalls, cancelled, queue, messages, wg,
                   lastRecv, consecFail, lateRecv, recvParams>>

\* Mutant of WaitReturns: the wait returns while one goroutine is still counted.
WaitReturns_Early == wg <= 1

\* wg.Wait() returns when the counter is zero.
WaitReturns == wg = 0

\* wg.Wait() returns and so does run; Start goes to its next iteration.
\* The frames of the goroutines that have returned are gone.
RunWait ==
    /\ pc = "wait"
    /\ WaitReturns
    /\ pc' = "select"
    /\ unit' = [k \in DOMAIN unit |->
                  IF unit[k].pc = "done" THEN Finished ELSE unit[k]]
    /\ messages' = <<>>
    /\ idx' = 0
    /\ UNCHANGED <<ctor, Config, resolveCalls, cancelled, queue, i, wg,
                   lastRecv, consecFail, lateRecv, recvParams>>

\* ---------------------------------------------------- Worker.handleMessage
\* What goroutine k reads through its pointer m: m is &i for every
\* goroutine, and the module's go directive (go 1.15) gives the range loop a
\* single variable i, so it reads the current value of run's range variable.
\* The read races with the loop's next assignment; each field is read whole.
Deref(k) == i

\* Whether handleMessage goes on to DeleteMessage after the handler result r.
Acknowledges(r) == r \in {"ok", "invalid"}

\* The goroutine calls h.HandleMessage(m); on a generic error handleMessage
\* returns it, run logs it and the deferred wg.Done() runs.
GoHandle(k) ==
    /\ k \in DOMAIN unit
    /\ unit[k].pc = "start"
    /\ \E r \in HandlerResults :
        /\ unit' = [unit EXCEPT ![k] =
                      [pc |-> IF Acknowledges(r) THEN "handled" ELSE "done",
                       body |-> Deref(k).Body, res |-> r, tok |-> 0,
                       del |-> "none", url |-> <<>>]]
        /\ wg' = IF Acknowledges(r) THEN wg ELSE wg - 1
    /\ UNCHANGED <<ctor, Config, resolveCalls, cancelled, pc, queue, messages, idx, i,
                   lastRecv, consecFail, lateRecv, recvParams>>

\* params := &sqs.DeleteMessageInput{...} of goroutine k.
DeleteMessageInput(k) ==
    [QueueUrl |-> Config.QueueURL, ReceiptHandle |-> Deref(k).ReceiptHandle]

\* Mutant of GoDelete: a failed delete is fatal (log.Fatal) and ends Start.
GoDelete_Fatal(k) ==
    /\ k \in DOMAIN unit
    /\ unit[k].pc = "handled"
    /\ LET h == DeleteMessageInput(k).ReceiptHandle IN
       \E ok \in BOOLEAN :
        /\ unit' = [unit EXCEPT ![k] =
                      [@ EXCEPT !.pc = "done", !.tok = h,
                                !.del = IF ok THEN "ok" ELSE "err",
                                !.url = DeleteMessageInput(k).QueueUrl]]
        /\ queue' = IF ok THEN {q \in queue : Message(q).ReceiptHandle # h}
                    ELSE queue
        /\ pc' = IF ok THEN pc ELSE "stopped"
    /\ wg' = wg - 1
    /\ UNCHANGED <<ctor, Config, resolveCalls, cancelled, messages, idx, i,
                   lastRecv, consecFail, lateRecv, recvParams>>

\* The goroutine calls DeleteMessage with m.ReceiptHandle; whatever the
\* outcome, handleMessage returns and the deferred wg.Done() runs.
GoDelete(k) ==
    /\ k \in DOMAIN unit
    /\ unit[k].pc = "handled"
    /\ LET h == DeleteMessageInput(k).ReceiptHandle IN
       \E ok \in BOOLEAN :
        /\ unit' = [unit EXCEPT ![k] =
                      [@ EXCEPT !.pc = "done", !.tok = h,
                                !.del = IF ok THEN "ok" ELSE "err",
                                !.url = DeleteMessageInput(k).QueueUrl]]
        /\ queue' = IF ok THEN {q \in queue : Message(q).ReceiptHandle # h}
                    ELSE queue
    /\ wg' = wg - 1
    /\ UNCHANGED <<ctor, Config, resolveCalls, cancelled, pc, messages, idx, i,
                   lastRecv, consecFail, lateRecv, recvParams>>

\* ------------------------------------------------------------ specification
Loop ==
    \/ New
    \/ SelectDone
    \/ SelectDefault
    \/ ReceiveCall
    \/ ReceiveErr
    \/ ReceiveOk
    \/ RunBegin
    \/ RunLaunch
    \/ RunWait

\* A step of one of the goroutines; a batch launches at most NumMsgs of them.
Units == \E k \in MsgIds : GoHandle(k) \/ GoDelete(k)

Next == Loop \/ Units \/ Cancel

Spec == Init /\ [][Next]_vars

\* The queue name decides no step of the loop: one name is enough here.
FairInit == Init /\ Config.QueueName = "my-sqs-queue"

\* Every call returns and every task is scheduled: the loop task and each
\* goroutine take their next step when they have one. Cancellation is up to
\* the caller and is not forced.
FairSpec ==
    /\ FairInit
    /\ [][Next]_vars
    /\ WF_vars(Loop)
    /\ \A k \in MsgIds : WF_vars(GoHandle(k)) /\ WF_vars(GoDelete(k))

TypeOK ==
    /\ pc \in {"new", "select", "poll", "receiving", "run", "launch", "wait", "stopped"}
    /\ cancelled \in BOOLEAN
    /\ queue \subseteq MsgIds
    /\ wg \in 0..NumMsgs
    /\ Len(unit) <= NumMsgs

\* ------------------------------------------------------------------ claims
\* The dispatch of the current batch is complete: every goroutine run
\* launched has returned and wg.Wait() is about to return.
DispatchDone == pc = "wait" /\ wg = 0

\* The delete calls of the current dispatch that carried receipt handle h.
DeletesOf(h) == {k \in DOMAIN unit : unit[k].tok = h}

\* The handler invocations of the current dispatch on the message with body b.
HandlesOf(b) == {k \in DOMAIN unit : unit[k].body = b}

AllUnitsDone == \A k \in DOMAIN unit : unit[k].pc = "done"

\* C1: when the dispatch of a batch of N messages is complete and all N
\* handler invocations succeeded, each of the N receipt handles of the batch
\* was deleted exactly once.
C1_ExactlyOneDeletePerMessage ==
    (DispatchDone /\ \A k \in DOMAIN unit : unit[k].res = "ok")
        => \A n \in DOMAIN messages :
              Cardinality(DeletesOf(messages[n].ReceiptHandle)) = 1

\* C2: the k-th goroutine launched by run invokes the handler on the k-th
\* message of the batch and deletes the receipt handle of the k-th message,
\* and no other.
C2_UnitOwnsItsMessage ==
    \A k \in DOMAIN unit :
        k \in DOMAIN messages =>
            /\ unit[k].body # 0 => unit[k].body = messages[k].Body
            /\ unit[k].tok # 0 => unit[k].tok = messages[k].ReceiptHandle

\* C3: for a message on which a handler invocation returned a generic error,
\* no delete call carries that message's receipt handle during the dispatch.
C3_NoDeleteAfterGenericError ==
    \A k \in DOMAIN unit :
        unit[k].res = "error"
            => DeletesOf(Message(unit[k].body).ReceiptHandle) = {}

\* C4: for a message on which a handler invocation returned the invalid-event
\* error, a delete call carrying that message's receipt handle has been
\* issued by the time the dispatch is complete.
C4_DeleteAfterInvalidEvent ==
    DispatchDone =>
        \A k \in DOMAIN unit :
            unit[k].res = "invalid"
                => DeletesOf(Message(unit[k].body).ReceiptHandle) # {}

\* C5 (as claimed): no receive call begins after the cancellation signal fired.
C5_NoReceiveAfterCancel == lateRecv = 0

\* C5 (amended): a cancellation check made after the signal fired never leads
\* to a receive call, so at most one receive call begins after the signal
\* fired: the one of the iteration whose check preceded the signal.
C5_AtMostOneLateReceive ==
    /\ [](lateRecv <= 1)
    /\ [][(pc = "select" /\ cancelled) => pc' # "poll"]_vars

C5_Witness == lateRecv = 1 /\ pc = "stopped"

\* C6: the loop is at a point outside run (before a receive, in a receive,
\* about to dispatch the next batch, or returned) only when every goroutine
\* of the previously dispatched batch has finished and the wait group is at
\* zero.
C6_BatchesSequential ==
    pc \in {"select", "poll", "receiving", "run", "stopped"}
        => wg = 0 /\ AllUnitsDone

C6_Witness == pc = "receiving" /\ Len(unit) >= 2 /\ AllUnitsDone

\* C7: when the dispatch of a batch is complete and cancellation fired in the
\* meantime, the handler was invoked on every message of the batch and every
\* message on which it returned success or invalid-event had its receipt
\* handle deleted.
C7_InFlightDispatchCompletes ==
    (DispatchDone /\ cancelled) =>
        \A n \in DOMAIN messages :
            /\ HandlesOf(messages[n].Body) # {}
            /\ (\E k \in HandlesOf(messages[n].Body) : Acknowledges(unit[k].res))
                  => DeletesOf(messages[n].ReceiptHandle) # {}

\* C8: Start returns only if the cancellation signal has fired; and as long
\* as the signal has not fired, whatever errors occurred, Start goes on to a
\* receive call, and from a receive call to the point where it issues the
\* next one.
C8_OnlyCancellationStops ==
    /\ [](pc = "stopped" => cancelled)
    /\ ((~cancelled /\ pc # "receiving") ~> (cancelled \/ pc = "receiving"))
    /\ ((~cancelled /\ pc = "receiving") ~> (cancelled \/ pc = "poll"))

\* A dispatch ends with a generic handler error, an invalid-event error and
\* a failed delete while the signal has not fired.
C8_Witness ==
    /\ DispatchDone
    /\ ~cancelled
    /\ \E k \in DOMAIN unit : unit[k].res = "error"
    /\ \E k \in DOMAIN unit : unit[k].res = "invalid" /\ unit[k].del = "err"

\* C9: once the cancellation signal has fired Start eventually returns, and
\* after Start has returned no receive, handler or delete call happens.
C9_StopsAndStaysStopped ==
    /\ (cancelled ~> pc = "stopped")
    /\ [][pc = "stopped" =>
            /\ pc' = "stopped"
            /\ unit' = unit
            /\ queue' = queue
            /\ lateRecv' = lateRecv]_vars

C9_Witness == pc = "stopped" /\ cancelled /\ unit # <<>>

\* C10: after a receive call returned an error, and until the next receive
\* call returns, the loop is at the cancellation check, at a new receive
\* call, or stopped by cancellation, and no step invokes the handler or
\* deletes a message.
C10_ReceiveErrorSkipsDispatch ==
    /\ [](lastRecv = "err" =>
            /\ pc \in {"select", "poll", "receiving"} \/ (pc = "stopped" /\ cancelled)
            /\ AllUnitsDone)
    /\ [][lastRecv' = "err" => (unit' = unit /\ queue' = queue)]_vars

C10_Witness == lastRecv = "err" /\ consecFail = MaxFail /\ pc = "receiving"

\* The address New has to store: the answer to the GetQueueUrl call it made,
\* or the empty address when that call failed.
ResolvedUrl == IF resolved.ok THEN QueueUrlOf(resolved.name) ELSE EmptyUrl

\* C11: after a receive call returned zero messages, and until the next
\* receive call returns, the loop is at the cancellation check, at a new
\* receive call, or stopped by cancellation; run is not entered, no goroutine
\* is launched and no step invokes the handler or deletes a message.
C11_EmptyReceiveSkipsDispatch ==
    /\ [](lastRecv = "empty" =>
            /\ pc \in {"select", "poll", "receiving"} \/ (pc = "stopped" /\ cancelled)
            /\ wg = 0
            /\ AllUnitsDone)
    /\ [][lastRecv' = "empty" => (unit' = unit /\ queue' = queue /\ wg' = wg)]_vars

C11_Witness == lastRecv = "empty" /\ pc = "receiving" /\ queue # {} /\ ~cancelled

\* C12: once New has returned, MaxNumberOfMessage is 10 if the caller
\* supplied 0 and the supplied value otherwise, and WaitTimeSecond is 20 if
\* the caller supplied 0 and the supplied value otherwise, each field on its
\* own.
C12_DefaultsApplied ==
    pc # "new" =>
        /\ Config.MaxNumberOfMessage =
              IF supplied.MaxNumberOfMessage = 0 THEN 10
              ELSE supplied.MaxNumberOfMessage
        /\ Config.WaitTimeSecond =
              IF supplied.WaitTimeSecond = 0 THEN 20
              ELSE supplied.WaitTimeSecond

\* One field unset and the other set: only the unset one is defaulted.
C12_Witness ==
    /\ pc # "new"
    /\ supplied.MaxNumberOfMessage = 0 /\ supplied.WaitTimeSecond = 5
    /\ Config.MaxNumberOfMessage = 10 /\ Config.WaitTimeSecond = 5

\* C13: GetQueueUrl is not called before New and has been called exactly
\* once ever after, with the configured queue name, and the Worker's queue
\* address is the answer to that call.
C13_ResolvedOnceAtConstruction ==
    /\ pc = "new" => resolveCalls = 0
    /\ pc # "new" =>
        /\ resolveCalls = 1
        /\ resolved.name = supplied.QueueName
        /\ Config.QueueURL = ResolvedUrl

\* A second iteration of the loop, after a dispatched batch.
C13_Witness ==
    /\ pc = "receiving" /\ lastRecv = "batch"
    /\ resolveCalls = 1
    /\ Config.QueueURL = QueueUrlOf("other-queue")

\* C14: every ReceiveMessage call carries the resolved queue address, the
\* batch size and the wait time New fixed and the attribute name "All";
\* every DeleteMessage call carries the resolved queue address.
C14_CallParameters ==
    /\ recvParams # NoParams =>
          recvParams =
            [QueueUrl |-> ResolvedUrl,
             MaxNumberOfMessages |->
                IF supplied.MaxNumberOfMessage = 0 THEN 10
                ELSE supplied.MaxNumberOfMessage,
             AttributeNames |-> <<"All">>,
             WaitTimeSeconds |->
                IF supplied.WaitTimeSecond = 0 THEN 20
                ELSE supplied.WaitTimeSecond]
    /\ \A k \in DOMAIN unit : unit[k].tok # 0 => unit[k].url = ResolvedUrl

C14_Witness ==
    /\ recvParams.MaxNumberOfMessages = 1 /\ recvParams.WaitTimeSeconds = 20
    /\ \E k \in DOMAIN unit : unit[k].tok # 0 /\ unit[k].url = QueueUrlOf("my-sqs-queue")

\* C15: when the GetQueueUrl call of New failed, the Worker exists with the
\* empty queue address and the defaults applied, every receive call carries
\* the empty address and fails, Start returns only on cancellation, and as
\* long as the signal has not fired Start comes to another receive call.
C15_ResolutionFailureIsSoft ==
    /\ []((pc # "new" /\ ~resolved.ok) =>
            /\ Config.QueueURL = EmptyUrl
            /\ Config.MaxNumberOfMessage # 0 /\ Config.WaitTimeSecond # 0
            /\ recvParams # NoParams => recvParams.QueueUrl = EmptyUrl
            /\ lastRecv \in {"none", "err"}
            /\ pc = "stopped" => cancelled)
    /\ ((pc # "new" /\ ~resolved.ok /\ ~cancelled /\ pc # "receiving")
            ~> (cancelled \/ pc = "receiving"))

C15_Witness ==
    /\ pc = "receiving" /\ ~resolved.ok /\ ~cancelled
    /\ consecFail = MaxFail
    /\ recvParams.QueueUrl = EmptyUrl
    /\ Config.MaxNumberOfMessage = 10

C17_FailuresIsolated ==
    (DispatchDone /\ \E k \in DOMAIN unit : unit[k].res = "error") =>
        \A n \in DOMAIN messages :
            (\A k \in HandlesOf(messages[n].Body) : unit[k].res # "error")
                => /\ HandlesOf(messages[n].Body) # {}
                   /\ DeletesOf(messages[n].ReceiptHandle) # {}

\* C18: a delete call carries a receipt handle only if a handler invocation
\* on the message of that receipt handle has returned success or
\* invalid-event.
C18_DeleteOnlyAfterHandled ==
    \A k \in DOMAIN unit :
        unit[k].tok # 0 =>
            \E j \in DOMAIN unit :
                /\ Acknowledges(unit[j].res)
                /\ Message(unit[j].body).ReceiptHandle = unit[k].tok

\* C19: no step after New changes Config; Config stays what New made of the
\* supplied values, and the receive and delete calls carry its values.
C19_ConfigImmutable ==
    /\ [][pc # "new" => Config' = Config]_vars
    /\ [](pc # "new" =>
            Config = [MaxNumberOfMessage |->
                         IF supplied.MaxNumberOfMessage = 0 THEN 10
                         ELSE supplied.MaxNumberOfMessage,
                      QueueName |-> supplied.QueueName,
                      QueueURL |-> ResolvedUrl,
                      WaitTimeSecond |->
                         IF supplied.WaitTimeSecond = 0 THEN 20
                         ELSE supplied.WaitTimeSecond])
    /\ [](recvParams # NoParams =>
            /\ recvParams.QueueUrl = Config.QueueURL
            /\ recvParams.MaxNumberOfMessages = Config.MaxNumberOfMessage
            /\ recvParams.WaitTimeSeconds = Config.WaitTimeSecond)
    /\ [](\A k \in DOMAIN unit : unit[k].tok # 0 => unit[k].url = Config.QueueURL)

\* Start has returned after failed receives and a dispatch.
C19_Witness ==
    /\ pc = "stopped" /\ lastRecv = "err" /\ unit # <<>>
    /\ Config.QueueURL # EmptyUrl

\* C20: when the signal had fired before Start was called, Start is at its
\* first cancellation check or has returned, no receive call was issued, no
\* goroutine launched and no message deleted; and Start returns.
C20_CancelledBeforeStart ==
    /\ [](startCancelled =>
            /\ pc \in {"select", "stopped"}
            /\ recvParams = NoParams /\ lastRecv = "none" /\ lateRecv = 0
            /\ unit = <<>>
            /\ queue = MsgIds)
    /\ (startCancelled ~> pc = "stopped")

C20_Witness == startCancelled /\ pc = "stopped"

====
